---- MODULE Spec2Model ----
(***************************************************************************)
(* Model of src/tps-ext.ts: the usage aggregator (aggregateUsage), the     *)
(* notification formatter (formatNotification) and the run tracker         *)
(* (the agent_start / agent_end handlers registered by tpsExtension).      *)
(*                                                                         *)
(* Three specifications share the module:                                  *)
(*   Spec     the run tracker driven by agent_start / agent_end signals    *)
(*   SpecAgg  the for-loop of aggregateUsage over bounded event sequences  *)
(*   SpecFmt  formatNotification applied to bounded arguments              *)
(***************************************************************************)
EXTENDS Integers, Sequences, FiniteSets, TLC

VARIABLES
    agentStartMs,   \* tps-ext.ts:103  let agentStartMs: number | null
    options,        \* tps-ext.ts:100  { ...DEFAULTS, ...userOptions }
    sinkCount,      \* number of ctx.ui.notify calls made so far (tps-ext.ts:125)
    numStarts,      \* number of agent_start signals handled so far
    startsSinceEnd, \* clock readings of the agent_start signals handled since the
                    \* last agent_end (or since setup)
    lastStartAt,    \* Date.now() read by the most recent agent_start handler
    last,           \* record of the most recent handler invocation
    messages,       \* aggregateUsage: the argument (tps-ext.ts:41)
    idx,            \* aggregateUsage: number of loop iterations done (tps-ext.ts:44)
    acc,            \* aggregateUsage: the accumulator (tps-ext.ts:42)
    pc,             \* position of the pure-function call: "idle", "loop", "done",
                    \* "format", "formatted"
    fmtArgs,        \* formatNotification: the argument (tps-ext.ts:65-69)
    fmtOut          \* formatNotification: the returned line, as a sequence of characters
                    \* (empty before the call returns)

vars == <<agentStartMs, options, sinkCount, numStarts, startsSinceEnd,
          lastStartAt, last, messages, idx, acc, pc, fmtArgs, fmtOut>>

trackerVars == <<agentStartMs, options, sinkCount, numStarts, startsSinceEnd,
                 lastStartAt, last>>
aggVars == <<messages, idx, acc, pc>>
fmtVars == <<fmtArgs, fmtOut>>

(***************************************************************************)
(* Bounds                                                                  *)
(***************************************************************************)
MaxLen == 3        \* longest event sequence given to aggregateUsage in SpecAgg
MaxStarts == 2     \* agent_start signals in one behaviour of Spec
MaxTick == 2       \* the wall clock reads 0, TickMs, ..., MaxTick * TickMs
MaxMsgs == 1       \* longest message sequence carried by an agent_end signal in Spec
TickMs == 700      \* granularity of the modelled wall clock, in milliseconds

\* the null of  number | null : a value Date.now() never returns
Null == -1

(***************************************************************************)
(* JavaScript numbers.  A finite number is modelled exactly as             *)
(* hi * 2^53 + lo with |lo| far below 2^52, which covers the small token   *)
(* counts and the values around 2^53 where a double stops being able to    *)
(* hold every integer.  `+` on doubles is the exact sum rounded to the     *)
(* nearest representable value, ties to the even significand.              *)
(***************************************************************************)
Dbl(h, l) == [hi |-> h, lo |-> l]
Num(n) == Dbl(0, n)
Zero == Num(0)
Two53 == Dbl(1, 0)

DblNeg(d) == Dbl(0 - d.hi, 0 - d.lo)
DblIsNeg(d) == d.hi < 0 \/ (d.hi = 0 /\ d.lo < 0)
DblLess(a, b) == a.hi < b.hi \/ (a.hi = b.hi /\ a.lo < b.lo)
DblLeq(a, b) == a = b \/ DblLess(a, b)

RECURSIVE UlpOf(_)
\* spacing of doubles in the binade of top * 2^53 (1 below 2^53)
UlpOf(top) == IF top = 0 THEN 1 ELSE 2 * UlpOf(top \div 2)

\* round a non-negative exact value to the nearest double, ties to even
DblRoundPos(d) ==
    LET top == IF d.lo >= 0 THEN d.hi ELSE d.hi - 1
        u == UlpOf(top)
        q == d.lo \div u
        r == d.lo % u
        up == (2 * r > u) \/ (2 * r = u /\ q % 2 = 1)
    IN  Dbl(d.hi, IF up THEN (q + 1) * u ELSE q * u)

DblRound(d) == IF DblIsNeg(d) THEN DblNeg(DblRoundPos(DblNeg(d))) ELSE DblRoundPos(d)

\* a + b on numbers (tps-ext.ts:51-55, the += of the accumulator)
DblAdd(a, b) == DblRound(Dbl(a.hi + b.hi, a.lo + b.lo))

(***************************************************************************)
(* JavaScript values read from a usage sub-record, and events.             *)
(***************************************************************************)
Fields == {"input", "output", "cacheRead", "cacheWrite", "totalTokens"}

Undef == [t |-> "undefined", v |-> Zero]
StrV == [t |-> "string", v |-> Num(5)]         \* the string "5"
NaNV == [t |-> "nan", v |-> Zero]              \* typeof "number", not finite
InfV == [t |-> "infinity", v |-> Zero]         \* typeof "number", not finite
NumV(d) == [t |-> "number", v |-> d]           \* a finite number

NoFields == [f \in Fields |-> Undef]

\* the value of m.usage: undefined, null, a primitive, or an object
UsageUndef == [t |-> "undefined", f |-> NoFields]
UsageNull == [t |-> "null", f |-> NoFields]
UsagePrim == [t |-> "string", f |-> NoFields]
UsageObj(fs) == [t |-> "object", f |-> fs]

\* an element of the messages array: null, a primitive, or an object with a
\* role property ("" when the property is missing) and a usage property
EvNull == [t |-> "null", role |-> "", usage |-> UsageUndef]
EvPrim == [t |-> "string", role |-> "", usage |-> UsageUndef]
EvObj(role, usage) == [t |-> "object", role |-> role, usage |-> usage]

\* tps-ext.ts:28-30  typeof v === "object" && v !== null
isRecord(v) == v.t = "object"

\* tps-ext.ts:32-35
isAssistantMessage(message) ==
    IF ~isRecord(message) THEN FALSE ELSE message.role = "assistant"

\* readNumber that coerces numeric strings instead of rejecting them
readNumberCoercing(v) == IF v.t \in {"number", "string"} THEN v.v ELSE Zero

\* tps-ext.ts:37-39  typeof v === "number" && Number.isFinite(v) ? v : 0
readNumber(v) == IF v.t = "number" THEN v.v ELSE Zero

ZeroUsage == [f \in Fields |-> Zero]

\* loop body that assigns acc.output instead of adding to it
AccStepAssignOutput(a, m) ==
    IF ~isAssistantMessage(m) THEN a
    ELSE IF ~isRecord(m.usage) THEN a
    ELSE [f \in Fields |->
            IF f = "output" THEN readNumber(m.usage.f[f])
            ELSE DblAdd(a[f], readNumber(m.usage.f[f]))]

\* one iteration of the loop body, tps-ext.ts:45-55
AccStep(a, m) ==
    IF ~isAssistantMessage(m) THEN a
    ELSE IF ~isRecord(m.usage) THEN a
    ELSE [f \in Fields |-> DblAdd(a[f], readNumber(m.usage.f[f]))]

RECURSIVE FoldUsage(_, _)
FoldUsage(a, ms) == IF ms = <<>> THEN a ELSE FoldUsage(AccStep(a, Head(ms)), Tail(ms))

\* tps-ext.ts:41-59
aggregateUsage(ms) == FoldUsage(ZeroUsage, ms)

(***************************************************************************)
(* Text.  A string is a sequence of one-character strings.  Numbers put    *)
(* into text are exact rationals num / den * 10^e10 with den > 0; the      *)
(* decimal rounding of toFixed is done on the exact value.                 *)
(***************************************************************************)
Rat(n, d, e) == [num |-> n, den |-> d, e10 |-> e]

Digit(d) == <<"0", "1", "2", "3", "4", "5", "6", "7", "8", "9">>[d + 1]

RECURSIVE IntDigits(_)
\* decimal digits of n >= 0
IntDigits(n) == IF n < 10 THEN <<Digit(n)>> ELSE Append(IntDigits(n \div 10), Digit(n % 10))

RECURSIVE Zeros(_)
Zeros(k) == IF k <= 0 THEN <<>> ELSE <<"0">> \o Zeros(k - 1)

RECURSIVE Pow10(_)
Pow10(k) == IF k <= 0 THEN 1 ELSE 10 * Pow10(k - 1)

RECURSIVE GroupThousands(_)
\* "1234567" -> "1,234,567"
GroupThousands(ds) ==
    IF Len(ds) <= 3 THEN ds
    ELSE GroupThousands(SubSeq(ds, 1, Len(ds) - 3)) \o <<",">> \o SubSeq(ds, Len(ds) - 2, Len(ds))

\* Number.prototype.toLocaleString() of an integer, en-US grouping
toLocaleString(n) ==
    IF n < 0 THEN <<"-">> \o GroupThousands(IntDigits(0 - n))
    ELSE GroupThousands(IntDigits(n))

\* Math.trunc of a number below 2^53; the numbers of the model are integers
MathTrunc(d) == d.lo

\* tps-ext.ts:61-63
fmtInt(n) == toLocaleString(MathTrunc(n))

\* Number.prototype.toFixed(f): the integer n with n / 10^f closest to |x|
\* (the larger n on a tie), printed with f decimals, "-" in front when x < 0
toFixed(x, f) ==
    LET a == IF x.num < 0 THEN 0 - x.num ELSE x.num
        k == x.e10 + f
        D == x.den * Pow10(0 - k)
        ds == IF D = 1
              THEN (IF a = 0 THEN <<"0">> ELSE IntDigits(a) \o Zeros(k))
              ELSE IntDigits((2 * a * Pow10(k) + D) \div (2 * D))
        padded == Zeros(f + 1 - Len(ds)) \o ds
        whole == SubSeq(padded, 1, Len(padded) - f)
        frac == SubSeq(padded, Len(padded) - f + 1, Len(padded))
    IN  (IF x.num < 0 THEN <<"-">> ELSE <<>>)
        \o whole \o (IF f > 0 THEN <<".">> \o frac ELSE <<>>)

\* Math.max(elapsedSeconds, 1e-9) for elapsedSeconds a multiple of 1 ms
MaxWithEpsilon(x) == IF x.num >= 1 THEN x ELSE Rat(1, 1, -9)

\* n / x for a number n below 2^53 and x > 0
DivideBy(n, x) == Rat(n.lo * x.den, x.num, 0 - x.e10)

RECURSIVE Join(_)
\* parts.join(", ")
Join(ps) ==
    IF ps = <<>> THEN <<>>
    ELSE IF Len(ps) = 1 THEN ps[1]
    ELSE ps[1] \o <<",", " ">> \o Join(Tail(ps))

\* the parts array with the totals block pushed before the cache block
FormatPartsTotalsFirst(args) ==
    LET usage == args.usage
        outTps == DivideBy(usage["output"], MaxWithEpsilon(args.elapsedSeconds))
        denom == DblAdd(usage["input"], usage["cacheRead"])
    IN  <<<<"T", "P", "S", " ">> \o toFixed(outTps, args.options.precision)
              \o <<" ", "t", "o", "k", "/", "s">>,
          <<"o", "u", "t", " ">> \o fmtInt(usage["output"]),
          <<"i", "n", " ">> \o fmtInt(usage["input"])>>
        \o (IF args.options.showTotals
            THEN <<<<"t", "o", "t", "a", "l", " ">> \o fmtInt(usage["totalTokens"])>>
                 \o (IF DblLess(Zero, usage["input"])
                     THEN <<<<"o", "/", "i", " ">>
                            \o toFixed(Rat(usage["output"].lo, usage["input"].lo, 0), 2)>>
                     ELSE <<>>)
            ELSE <<>>)
        \o (IF args.options.showCache
            THEN <<<<"c", "a", "c", "h", "e", " ", "r", "/", "w", " ">>
                   \o fmtInt(usage["cacheRead"]) \o <<"/">> \o fmtInt(usage["cacheWrite"])>>
                 \o (IF DblLess(Zero, denom)
                     THEN <<<<"c", "a", "c", "h", "e", "%", " ">>
                            \o toFixed(Rat(usage["cacheRead"].lo, denom.lo, 2), 0) \o <<"%">>>>
                     ELSE <<>>)
            ELSE <<>>)
        \o <<toFixed(args.elapsedSeconds, args.options.precision) \o <<"s">>>>

\* tps-ext.ts:70-95  the parts array at the join
FormatParts(args) ==
    LET usage == args.usage
        \* :73  usage.output / Math.max(elapsedSeconds, 1e-9)
        outTps == DivideBy(usage["output"], MaxWithEpsilon(args.elapsedSeconds))
        \* :82  usage.input + usage.cacheRead
        denom == DblAdd(usage["input"], usage["cacheRead"])
    IN  \* :76-78
        <<<<"T", "P", "S", " ">> \o toFixed(outTps, args.options.precision)
              \o <<" ", "t", "o", "k", "/", "s">>,
          <<"o", "u", "t", " ">> \o fmtInt(usage["output"]),
          <<"i", "n", " ">> \o fmtInt(usage["input"])>>
        \* :80-87
        \o (IF args.options.showCache
            THEN <<<<"c", "a", "c", "h", "e", " ", "r", "/", "w", " ">>
                   \o fmtInt(usage["cacheRead"]) \o <<"/">> \o fmtInt(usage["cacheWrite"])>>
                 \o (IF DblLess(Zero, denom)
                     THEN <<<<"c", "a", "c", "h", "e", "%", " ">>
                            \o toFixed(Rat(usage["cacheRead"].lo, denom.lo, 2), 0) \o <<"%">>>>
                     ELSE <<>>)
            ELSE <<>>)
        \* :89-93
        \o (IF args.options.showTotals
            THEN <<<<"t", "o", "t", "a", "l", " ">> \o fmtInt(usage["totalTokens"])>>
                 \o (IF DblLess(Zero, usage["input"])
                     THEN <<<<"o", "/", "i", " ">>
                            \o toFixed(Rat(usage["output"].lo, usage["input"].lo, 0), 2)>>
                     ELSE <<>>)
            ELSE <<>>)
        \* :95
        \o <<toFixed(args.elapsedSeconds, args.options.precision) \o <<"s">>>>

\* tps-ext.ts:65-97
formatNotification(args) == Join(FormatParts(args))

\* tps-ext.ts:20-26
DEFAULTS ==
    [minOutputTokensToNotify |-> 1, minSecondsToNotify |-> 0, precision |-> 1,
     showCache |-> TRUE, showTotals |-> TRUE]

\* tps-ext.ts:100  { ...DEFAULTS, ...userOptions }
MergeOptions(userOptions) ==
    [k \in DOMAIN DEFAULTS |-> IF k \in DOMAIN userOptions THEN userOptions[k] ELSE DEFAULTS[k]]

(***************************************************************************)
(* SpecAgg: aggregateUsage run as the loop it is, over event sequences     *)
(* drawn from AggEvents.                                                   *)
(***************************************************************************)
U(i, o, cr, cw, tt) ==
    UsageObj([input |-> i, output |-> o, cacheRead |-> cr, cacheWrite |-> cw,
              totalTokens |-> tt])

AggEvents ==
    { EvNull,
      EvPrim,
      EvObj("user", U(NumV(Num(1)), NumV(Num(1)), NumV(Num(1)), NumV(Num(1)), NumV(Num(1)))),
      EvObj("", U(Undef, NumV(Num(2)), Undef, Undef, Undef)),
      EvObj("assistant", UsageUndef),
      EvObj("assistant", UsageNull),
      EvObj("assistant", UsagePrim),
      EvObj("assistant", U(NumV(Num(1)), NumV(Num(2)), Undef, StrV, NaNV)),
      EvObj("assistant", U(InfV, NumV(Num(1)), NumV(Num(2)), NumV(Num(0)), NumV(Num(3)))),
      EvObj("assistant", U(NumV(Num(1)), NumV(Num(1)), NumV(Num(1)), NumV(Num(1)), NumV(Num(1)))),
      EvObj("assistant", U(NumV(Num(2)), NumV(Num(-1)), NumV(Num(0)), Undef, NumV(Num(1)))),
      EvObj("assistant", U(NumV(Num(0)), NumV(Two53), StrV, NaNV, NumV(Two53))) }

RECURSIVE SeqsUpTo(_, _)
\* all sequences over S of length at most n
SeqsUpTo(S, n) ==
    IF n = 0 THEN {<<>>}
    ELSE LET shorter == SeqsUpTo(S, n - 1)
         IN  shorter \cup {Append(s, e) : s \in shorter, e \in S}

TrackerIdle ==
    /\ agentStartMs = Null
    /\ options = DEFAULTS
    /\ sinkCount = 0
    /\ numStarts = 0
    /\ startsSinceEnd = <<>>
    /\ lastStartAt = Null
    /\ last = [kind |-> "setup", t |-> 0, hasUI |-> FALSE, messages |-> <<>>,
               before |-> Null, starts |-> <<>>, calls |-> <<>>]

AggIdle ==
    /\ messages = <<>>
    /\ idx = 0
    /\ acc = ZeroUsage
    /\ pc = "idle"

FmtIdle ==
    /\ fmtArgs = [elapsedSeconds |-> Rat(0, 1, -3), usage |-> ZeroUsage, options |-> DEFAULTS]
    /\ fmtOut = <<>>

InitAgg ==
    /\ TrackerIdle
    /\ FmtIdle
    /\ messages \in SeqsUpTo(AggEvents, MaxLen)
    /\ idx = 0
    /\ acc = ZeroUsage          \* tps-ext.ts:42
    /\ pc = "loop"

\* tps-ext.ts:44-56  one iteration of  for (const m of messages)
AggLoop ==
    /\ pc = "loop"
    /\ idx < Len(messages)
    /\ acc' = AccStep(acc, messages[idx + 1])
    /\ idx' = idx + 1
    /\ UNCHANGED <<messages, pc>>
    /\ UNCHANGED trackerVars
    /\ UNCHANGED fmtVars

\* tps-ext.ts:58  return acc
AggReturn ==
    /\ pc = "loop"
    /\ idx = Len(messages)
    /\ pc' = "done"
    /\ UNCHANGED <<messages, idx, acc>>
    /\ UNCHANGED trackerVars
    /\ UNCHANGED fmtVars

NextAgg == AggLoop \/ AggReturn

SpecAgg == InitAgg /\ [][NextAgg]_vars

(***************************************************************************)
(* The run tracker: tpsExtension and its two handlers.                     *)
(***************************************************************************)
\* agent_start that keeps a start instant already captured
StartInstantKeepFirst(start, now) == IF start = Null THEN now ELSE start

\* tps-ext.ts:105-107  agentStartMs after the agent_start handler
StartInstant(start, now) == now

\* agent_end that never resets agentStartMs
EndInstantNeverCleared(start, hasUI) == start

\* tps-ext.ts:110-114  agentStartMs after the agent_end handler
EndInstant(start, hasUI) ==
    IF ~hasUI THEN start
    ELSE IF start = Null THEN start
    ELSE Null

\* the two gates joined with "and": suppress only when both are below
BelowThresholdBoth(usage, elapsedMs, opts) ==
    /\ DblLess(usage["output"], Num(opts.minOutputTokensToNotify))
    /\ elapsedMs < 1000 * opts.minSecondsToNotify

\* the two gates with "<=": a value equal to its threshold is suppressed
BelowThresholdInclusive(usage, elapsedMs, opts) ==
    \/ DblLeq(usage["output"], Num(opts.minOutputTokensToNotify))
    \/ elapsedMs <= 1000 * opts.minSecondsToNotify

\* tps-ext.ts:121-122  usage.output < minOutputTokensToNotify, or
\* elapsedSeconds (= elapsedMs / 1000) < minSecondsToNotify
BelowThreshold(usage, elapsedMs, opts) ==
    \/ DblLess(usage["output"], Num(opts.minOutputTokensToNotify))
    \/ elapsedMs < 1000 * opts.minSecondsToNotify

\* tps-ext.ts:110-125  the calls of ctx.ui.notify made by one agent_end
\* handler; now is the value of Date.now() at line 113
NotifyCalls(start, now, hasUI, msgs, opts) ==
    IF ~hasUI THEN <<>>
    ELSE IF start = Null THEN <<>>
    ELSE LET elapsedMs == now - start
         IN  IF elapsedMs <= 0 THEN <<>>
             ELSE LET usage == aggregateUsage(msgs)
                  IN  IF BelowThreshold(usage, elapsedMs, opts) THEN <<>>
                      ELSE <<[msg |-> formatNotification(
                                         [elapsedSeconds |-> Rat(elapsedMs, 1, -3),
                                          usage |-> usage,
                                          options |-> opts]),
                              severity |-> "info"]>>

\* values Date.now() returns; the wall clock may step backwards
Times == {k * TickMs : k \in 0..MaxTick}

TrackerEvents ==
    { EvObj("user", U(NumV(Num(7)), NumV(Num(7)), NumV(Num(7)), NumV(Num(7)), NumV(Num(7)))),
      EvObj("assistant", U(NumV(Num(1000)), NumV(Num(2)), NumV(Num(200)), StrV,
                           NumV(Num(1252)))) }

TrackerMessages == SeqsUpTo(TrackerEvents, MaxMsgs)

NoUserOptions == [k \in {} |-> 0]

\* the userOptions argument of tpsExtension (tps-ext.ts:99), merged
TrackerOptions ==
    { MergeOptions(NoUserOptions),
      MergeOptions([minOutputTokensToNotify |-> 3]),
      MergeOptions([minSecondsToNotify |-> 1]),
      MergeOptions([minOutputTokensToNotify |-> 0, minSecondsToNotify |-> 2, precision |-> 2]),
      MergeOptions([minOutputTokensToNotify |-> 2, showCache |-> FALSE, showTotals |-> FALSE,
                    precision |-> 0]) }

\* tps-ext.ts:99-103  the state when tpsExtension returns
Init ==
    /\ agentStartMs = Null
    /\ options \in TrackerOptions
    /\ sinkCount = 0
    /\ numStarts = 0
    /\ startsSinceEnd = <<>>
    /\ lastStartAt = Null
    /\ last = [kind |-> "setup", t |-> 0, hasUI |-> FALSE, messages |-> <<>>,
               before |-> Null, starts |-> <<>>, calls |-> <<>>]
    /\ AggIdle
    /\ FmtIdle

\* tps-ext.ts:105-107  the agent_start handler
AgentStart ==
    \E now \in Times :
        /\ numStarts < MaxStarts
        /\ agentStartMs' = StartInstant(agentStartMs, now)
        /\ numStarts' = numStarts + 1
        /\ startsSinceEnd' = Append(startsSinceEnd, now)
        /\ lastStartAt' = now
        /\ last' = [kind |-> "agent_start", t |-> now, hasUI |-> FALSE, messages |-> <<>>,
                    before |-> agentStartMs, starts |-> startsSinceEnd, calls |-> <<>>]
        /\ UNCHANGED <<options, sinkCount>>
        /\ UNCHANGED aggVars
        /\ UNCHANGED fmtVars

\* tps-ext.ts:109-126  the agent_end handler, for event.messages = msgs and
\* ctx.hasUI = hasUI
AgentEnd ==
    \E now \in Times, hasUI \in BOOLEAN, msgs \in TrackerMessages :
        LET calls == NotifyCalls(agentStartMs, now, hasUI, msgs, options)
        IN  /\ agentStartMs' = EndInstant(agentStartMs, hasUI)
            /\ sinkCount' = sinkCount + Len(calls)
            /\ startsSinceEnd' = <<>>
            /\ last' = [kind |-> "agent_end", t |-> now, hasUI |-> hasUI, messages |-> msgs,
                        before |-> agentStartMs, starts |-> startsSinceEnd, calls |-> calls]
            /\ UNCHANGED <<options, numStarts, lastStartAt>>
            /\ UNCHANGED aggVars
            /\ UNCHANGED fmtVars

Next == AgentStart \/ AgentEnd

Spec == Init /\ [][Next]_vars

(***************************************************************************)
(* Properties of aggregateUsage (checked under SpecAgg)                    *)
(***************************************************************************)
\* field-wise sum of two counter sets, in JavaScript numbers
UsagePlus(a, b) == [f \in Fields |-> DblAdd(a[f], b[f])]

Permute(ms, p) == [i \in 1..Len(ms) |-> ms[p[i]]]

\* C6: during and after the fold every field of the accumulator is >= 0 and
\* no loop iteration decreases any field.
C6_NonNegativeNeverDecreased ==
    [][\A f \in Fields : DblLeq(Zero, acc'[f]) /\ DblLeq(acc[f], acc'[f])]_vars

\* C7: the result for A ++ B is the field-wise sum of the results for A and
\* for B, for every split of the sequence, and every permutation of the
\* sequence has the same result.
C7_AdditiveOrderIndependent ==
    pc = "done" =>
        /\ \A k \in 0..Len(messages) :
              acc = UsagePlus(aggregateUsage(SubSeq(messages, 1, k)),
                              aggregateUsage(SubSeq(messages, k + 1, Len(messages))))
        /\ \A p \in Permutations(1..Len(messages)) :
              aggregateUsage(Permute(messages, p)) = acc

\* the values the fold adds into field f, one per event that reaches the adds
Contributing(ms) == {i \in 1..Len(ms) : isAssistantMessage(ms[i]) /\ isRecord(ms[i].usage)}

DblAbs(d) == IF DblIsNeg(d) THEN DblNeg(d) ELSE d

RECURSIVE ExactAbsSum(_, _, _)
\* the exact (unrounded) sum of |value| over the finite numbers of field f
ExactAbsSum(ms, f, I) ==
    IF I = {} THEN Zero
    ELSE LET i == CHOOSE j \in I : TRUE
             v == ms[i].usage.f[f]
             a == IF v.t = "number" THEN DblAbs(v.v) ELSE Zero
             rest == ExactAbsSum(ms, f, I \ {i})
         IN  Dbl(a.hi + rest.hi, a.lo + rest.lo)

\* every number of the model is an integer; the sums stay exact in a double
\* when, per field, the magnitudes add up to at most 2^53
InExactRange(ms) ==
    \A f \in Fields : DblLeq(ExactAbsSum(ms, f, Contributing(ms)), Two53)

\* C7 (amended): additivity and order-independence for sequences whose
\* finite usage values are integers with, per field, magnitudes summing to
\* at most 2^53.
C7_AdditiveWhenExact == InExactRange(messages) => C7_AdditiveOrderIndependent

C7_Witness ==
    /\ pc = "done"
    /\ Len(messages) = 3
    /\ Cardinality(Contributing(messages)) = 3
    /\ InExactRange(messages)
    /\ messages[1] # messages[2]
    /\ acc["output"] = Num(4)
    /\ acc["totalTokens"] = Num(4)

\* what the claim says one event adds to the counters
C8_Contribution(e) ==
    IF e.t = "object" /\ e.role = "assistant" /\ e.usage.t = "object"
    THEN [f \in Fields |-> IF e.usage.f[f].t = "number" THEN e.usage.f[f].v ELSE Zero]
    ELSE ZeroUsage

C8_Skipped(e) == ~(e.t = "object" /\ e.role = "assistant") \/ e.usage.t # "object"

\* C8: each loop iteration adds exactly the event's contribution (zero for
\* non-records, for records whose role is not "assistant" and for assistant
\* records without a usage record; per field the finite number or 0), and a
\* sequence made only of skipped events returns all zeros.
C8_Filtering ==
    [][/\ idx' = idx + 1 => acc' = UsagePlus(acc, C8_Contribution(messages[idx + 1]))
       /\ (pc' = "done" /\ \A i \in 1..Len(messages) : C8_Skipped(messages[i]))
              => acc' = ZeroUsage]_vars

C8_Witness ==
    /\ pc = "loop"
    /\ idx = 2
    /\ C8_Skipped(messages[1])
    /\ messages[1].t = "object"
    /\ messages[2] = EvObj("assistant", U(NumV(Num(1)), NumV(Num(2)), Undef, StrV, NaNV))
    /\ acc = [input |-> Num(1), output |-> Num(2), cacheRead |-> Zero,
              cacheWrite |-> Zero, totalTokens |-> Zero]

(***************************************************************************)
(* SpecFmt: formatNotification applied to arguments drawn from FmtArgSet.  *)
(***************************************************************************)
FmtElapsedMs == {0, 1, 1500, 2000, 5000}

FmtUsages ==
    [input : {Num(-2), Num(0), Num(1000)},
     output : {Num(0), Num(3), Num(500)},
     cacheRead : {Num(0), Num(200)},
     cacheWrite : {Num(0), Num(50)},
     totalTokens : {Num(0), Num(1750)}]

FmtOptions ==
    {MergeOptions(u) : u \in [precision : {0, 1, 2}, showCache : BOOLEAN, showTotals : BOOLEAN]}

FmtArgSet ==
    [elapsedSeconds : {Rat(ms, 1, -3) : ms \in FmtElapsedMs},
     usage : FmtUsages,
     options : FmtOptions]

InitFmt ==
    /\ TrackerIdle
    /\ messages = <<>>
    /\ idx = 0
    /\ acc = ZeroUsage
    /\ pc = "format"
    /\ fmtArgs \in FmtArgSet
    /\ fmtOut = <<>>

\* a call of formatNotification (tps-ext.ts:65-97)
FmtCall ==
    /\ pc = "format"
    /\ fmtOut' = formatNotification(fmtArgs)
    /\ pc' = "formatted"
    /\ UNCHANGED <<fmtArgs, messages, idx, acc>>
    /\ UNCHANGED trackerVars

NextFmt == FmtCall

SpecFmt == InitFmt /\ [][NextFmt]_vars

(***************************************************************************)
(* Properties of formatNotification (checked under SpecFmt)                *)
(***************************************************************************)
RECURSIVE SplitFrom(_, _, _)
\* line.split(", "): cur is the segment collected so far
SplitFrom(line, i, cur) ==
    IF i > Len(line) THEN <<cur>>
    ELSE IF i < Len(line) /\ line[i] = "," /\ line[i + 1] = " "
         THEN <<cur>> \o SplitFrom(line, i + 2, <<>>)
         ELSE SplitFrom(line, i + 1, Append(cur, line[i]))

Split(line) == SplitFrom(line, 1, <<>>)

StartsWith(s, pre) == Len(s) >= Len(pre) /\ SubSeq(s, 1, Len(pre)) = pre

\* the segment a piece of text is, by its label
SegKind(seg) ==
    IF StartsWith(seg, <<"T", "P", "S", " ">>) THEN "TPS"
    ELSE IF StartsWith(seg, <<"o", "u", "t", " ">>) THEN "out"
    ELSE IF StartsWith(seg, <<"i", "n", " ">>) THEN "in"
    ELSE IF StartsWith(seg, <<"c", "a", "c", "h", "e", " ", "r", "/", "w", " ">>) THEN "cache r/w"
    ELSE IF StartsWith(seg, <<"c", "a", "c", "h", "e", "%", " ">>) THEN "cache%"
    ELSE IF StartsWith(seg, <<"t", "o", "t", "a", "l", " ">>) THEN "total"
    ELSE IF StartsWith(seg, <<"o", "/", "i", " ">>) THEN "o/i"
    ELSE IF Len(seg) >= 2 /\ seg[Len(seg)] = "s"
            /\ seg[1] \in {"0", "1", "2", "3", "4", "5", "6", "7", "8", "9", "-"} THEN "elapsed"
    ELSE "unknown"

Kinds(segs) == [i \in 1..Len(segs) |-> SegKind(segs[i])]

\* the segment kinds the claim prescribes for the given arguments
C9_ExpectedKinds(args) ==
    <<"TPS", "out", "in">>
    \o (IF args.options.showCache
        THEN <<"cache r/w">>
             \o (IF args.usage["input"].lo + args.usage["cacheRead"].lo > 0
                 THEN <<"cache%">> ELSE <<>>)
        ELSE <<>>)
    \o (IF args.options.showTotals
        THEN <<"total">> \o (IF args.usage["input"].lo > 0 THEN <<"o/i">> ELSE <<>>)
        ELSE <<>>)
    \o <<"elapsed">>

RECURSIVE IsSubsequence(_, _)
\* a can be obtained from b by deleting elements
IsSubsequence(a, b) ==
    IF a = <<>> THEN TRUE
    ELSE IF b = <<>> THEN FALSE
    ELSE IF Head(a) = Head(b) THEN IsSubsequence(Tail(a), Tail(b))
    ELSE IsSubsequence(a, Tail(b))

BothOn(args) ==
    [args EXCEPT !.options = [@ EXCEPT !.showCache = TRUE, !.showTotals = TRUE]]

\* C9: the line's segments are exactly TPS, out, in, [cache r/w, [cache%]],
\* [total, [o/i]], elapsed, with cache% iff input + cacheRead > 0 and o/i iff
\* input > 0, and they are a subsequence of the segments of the line
\* produced with showCache and showTotals both on.
C9_SegmentOrder ==
    pc = "formatted" =>
        /\ Kinds(Split(fmtOut)) = C9_ExpectedKinds(fmtArgs)
        /\ IsSubsequence(Split(fmtOut), Split(formatNotification(BothOn(fmtArgs))))

C9_Witness ==
    /\ pc = "formatted"
    /\ fmtArgs.options.showCache
    /\ ~fmtArgs.options.showTotals
    /\ fmtArgs.usage["input"] = Num(-2)
    /\ fmtArgs.usage["cacheRead"] = Num(200)
    /\ Len(Split(fmtOut)) = 6

\* the two end-to-end examples of the documentation
FmtExamples ==
    /\ formatNotification([elapsedSeconds |-> Rat(5000, 1, -3),
           usage |-> [input |-> Num(1000), output |-> Num(500), cacheRead |-> Num(200),
                      cacheWrite |-> Num(50), totalTokens |-> Num(1750)],
           options |-> DEFAULTS])
         = <<"T","P","S"," ","1","0","0",".","0"," ","t","o","k","/","s",","," ",
             "o","u","t"," ","5","0","0",","," ","i","n"," ","1",",","0","0","0",","," ",
             "c","a","c","h","e"," ","r","/","w"," ","2","0","0","/","5","0",","," ",
             "c","a","c","h","e","%"," ","1","7","%",","," ",
             "t","o","t","a","l"," ","1",",","7","5","0",","," ",
             "o","/","i"," ","0",".","5","0",","," ","5",".","0","s">>
    /\ formatNotification([elapsedSeconds |-> Rat(2000, 1, -3),
           usage |-> ZeroUsage, options |-> DEFAULTS])
         = <<"T","P","S"," ","0",".","0"," ","t","o","k","/","s",","," ",
             "o","u","t"," ","0",","," ","i","n"," ","0",","," ",
             "c","a","c","h","e"," ","r","/","w"," ","0","/","0",","," ",
             "t","o","t","a","l"," ","0",","," ","2",".","0","s">>

(***************************************************************************)
(* Properties of the run tracker (checked under Spec)                      *)
(***************************************************************************)
\* elapsed milliseconds of the run-end just handled (a start was captured)
LastElapsedMs == last.t - last.before

LastOutput == aggregateUsage(last.messages)["output"]

\* C1: after the agent_end handler returns, agentStartMs is null, whatever
\* the prior state, ctx.hasUI, the elapsed time and the thresholds.
C1_ClearedAfterRunEnd == last.kind = "agent_end" => agentStartMs = Null

\* C2: a run-end signal with no run-start signal since the previous run-end
\* (or since setup) makes no call of the notification sink.
C2_NoNotifyWithoutStart ==
    (last.kind = "agent_end" /\ last.starts = <<>>) => last.calls = <<>>

\* C3: a run-end whose aggregated output is below minOutputTokensToNotify
\* makes no sink call whatever the elapsed time, and a run-end whose elapsed
\* seconds are below minSecondsToNotify makes none whatever the output.
C3_ThresholdGating ==
    last.kind = "agent_end" =>
        /\ DblLess(LastOutput, Num(options.minOutputTokensToNotify)) => last.calls = <<>>
        /\ (last.before # Null /\ LastElapsedMs < 1000 * options.minSecondsToNotify)
              => last.calls = <<>>

C3_Witness ==
    /\ last.kind = "agent_end"
    /\ last.hasUI
    /\ last.before # Null
    /\ LastElapsedMs >= 1000
    /\ options.minSecondsToNotify = 0
    /\ options.minOutputTokensToNotify = 3
    /\ LastOutput = Num(2)
    /\ last.calls = <<>>

C4_Qualifying ==
    /\ last.before # Null
    /\ last.hasUI
    /\ LastElapsedMs > 0
    /\ ~DblLess(LastOutput, Num(options.minOutputTokensToNotify))
    /\ LastElapsedMs >= 1000 * options.minSecondsToNotify

\* C4: a qualifying run-end (start captured, active destination, elapsed > 0,
\* both thresholds met) makes exactly one sink call, with the line of
\* formatNotification for that elapsed time and usage and severity "info";
\* no run-end makes more than one call.
C4_ExactlyOneCall ==
    last.kind = "agent_end" =>
        /\ Len(last.calls) <= 1
        /\ C4_Qualifying =>
              last.calls = <<[msg |-> formatNotification(
                                         [elapsedSeconds |-> Rat(LastElapsedMs, 1, -3),
                                          usage |-> aggregateUsage(last.messages),
                                          options |-> options]),
                              severity |-> "info"]>>

C4_Witness ==
    /\ last.kind = "agent_end"
    /\ C4_Qualifying
    /\ LastOutput = Num(options.minOutputTokensToNotify)
    /\ options.minOutputTokensToNotify > 0
    /\ Len(last.calls) = 1
    /\ sinkCount = 1

\* C5: after a run-start the start instant is the clock value of that
\* run-start, also when one was already captured, and no call is made; the
\* elapsed time a notifying run-end prints is measured from the most recent
\* run-start.
C5_LastStartWins ==
    /\ last.kind = "agent_start" => (agentStartMs = last.t /\ last.calls = <<>>)
    /\ (last.kind = "agent_end" /\ last.calls # <<>>) =>
          LET segs == Split(last.calls[1].msg)
          IN  /\ last.before = lastStartAt
              /\ segs[Len(segs)]
                   = toFixed(Rat(last.t - lastStartAt, 1, -3), options.precision) \o <<"s">>

C5_Witness ==
    /\ last.kind = "agent_end"
    /\ Len(last.starts) = 2
    /\ last.starts[1] < last.starts[2]
    /\ last.t > last.starts[2]
    /\ last.calls # <<>>

\* C10: the sink has been called at most as often as run-start signals were
\* received, and right after a sink call the tracker is idle.
C10_OneNotificationPerStart ==
    /\ sinkCount <= numStarts
    /\ last.calls # <<>> => agentStartMs = Null

C10_Witness ==
    /\ sinkCount = 2
    /\ numStarts = 2
    /\ last.calls # <<>>

====
